---------------------------- MODULE Spec2Model ----------------------------
(***************************************************************************)
(* A model of src/blackjack.py: Card, Deck, Hand, dealer_turn,             *)
(* determine_winner and the round loop of game().                          *)
(*                                                                         *)
(* Four specifications share the variables:                                *)
(*   Spec        the session loop of game(): bet, deal, player turn,       *)
(*               dealer turn, settlement, continue;                        *)
(*   SpecHand    one Hand receiving arbitrary cards through add_card;      *)
(*   SpecSettle  determine_winner applied to arbitrary pairs of hands;     *)
(*   SpecDeck    one Deck dealt until it is empty, and once more.          *)
(***************************************************************************)
EXTENDS Integers, Sequences, FiniteSets, TLC

VARIABLES
    deck,          \* Deck.deck: the list of cards, dealt from its end
    dealt,         \* the cards deal() has returned from this Deck, in order
    err,           \* the exception raised by the last operation, or "none"
    dealer,        \* the dealer's Hand: cards, total, trigger
    player,        \* the player's Hand
    pc,            \* position in game(), or in the driver of a component
    last,          \* the operation or input executed last
    bet,           \* game(): bet
    player_money,  \* game(): player_money
    winnings,      \* the value determine_winner returned last
    outcome,       \* the branch determine_winner took (its printed verdict)
    dealer_ret,    \* the value dealer_turn returned last
    rounds         \* number of rounds begun in this session

vars == <<deck, dealt, err, dealer, player, pc, last, bet, player_money,
          winnings, outcome, dealer_ret, rounds>>

---------------------------------------------------------------------------
(* Bounds of the model *)

MaxSeed == 20        \* number of shuffles considered
MaxRounds == 2       \* rounds played in one session
MaxSmallBet == 3     \* bets 1..MaxSmallBet, besides the all-in bet
MaxHandLen == 4      \* SpecHand: cards added to the hand
MaxSettleLen == 3    \* SpecSettle: cards in each hand
MaxBet == 3          \* SpecSettle: bets 1..MaxBet

(* Program constants *)

StartMoney == 100
BustLimit == 21
DealerStandsAt == 17
AceHigh == 11
FaceValue == 10
AceReduction == 10
BlackjackCards == 2

---------------------------------------------------------------------------
(* Card and Deck *)

suits == <<"S", "H", "D", "C">>      \* spade, heart, diamond, club
ranks == <<"2", "3", "4", "5", "6", "7", "8", "9", "10", "J", "Q", "K", "A">>

Card(s, r) == [suit |-> s, rank |-> r]

Cards == {Card(suits[i], ranks[j]) : i \in 1..Len(suits), j \in 1..Len(ranks)}

\* The deck as the two nested loops of Deck.__init__ build it, before the
\* shuffle: suits outermost, ranks innermost.
OrderedDeck ==
    [k \in 1..(Len(suits) * Len(ranks)) |->
        Card(suits[((k - 1) \div Len(ranks)) + 1],
             ranks[((k - 1) % Len(ranks)) + 1])]

\* random.shuffle permutes the list in place.  The model considers the
\* permutations Shuffle(1) .. Shuffle(MaxSeed): position i receives the
\* card at position Stride*i + Offset of the built order, read suit by suit
\* (even seeds) or rank by rank (odd seeds).
Coprimes == <<1, 3, 5, 7, 9, 11, 15, 17, 19, 21, 23, 25,
              27, 29, 31, 33, 35, 37, 41, 43, 45, 47, 49, 51>>

Stride(s) == Coprimes[((7 * s) % Len(Coprimes)) + 1]

Offset(s) == (16 * s + 33) % Len(OrderedDeck)

Perm(s, i) ==
    LET j == (Stride(s) * i + Offset(s)) % Len(OrderedDeck)
    IN  IF s % 2 = 1
        THEN (j % Len(suits)) * Len(ranks) + (j \div Len(suits))
        ELSE j

Shuffle(s) == [i \in 1..Len(OrderedDeck) |-> OrderedDeck[Perm(s, i - 1) + 1]]

Shuffles == {Shuffle(s) : s \in 1..MaxSeed}

\* a plausible slip: an off-by-one emptiness test
DeckEmpty_le1(d) == Len(d) <= 1

\* list.pop() on an empty list raises IndexError
DeckEmpty(d) == Len(d) = 0

\* Deck.deal: self.deck.pop() returns the last element ...
DealCard(d) == d[Len(d)]

\* a plausible slip: the last card read but not removed (deck[-1])
DealRest_keep(d) == d

\* ... and removes it from the list
DealRest(d) == SubSeq(d, 1, Len(d) - 1)

---------------------------------------------------------------------------
(* Hand *)

NewHand == [cards |-> <<>>, total |-> 0, trigger |-> TRUE]

\* str.isdigit() on a rank
IsDigit(r) == r \in {"2", "3", "4", "5", "6", "7", "8", "9", "10"}

\* int(number) for the ranks made of digits
IntOf(r) ==
    CASE r = "2" -> 2 [] r = "3" -> 3 [] r = "4" -> 4 [] r = "5" -> 5
      [] r = "6" -> 6 [] r = "7" -> 7 [] r = "8" -> 8 [] r = "9" -> 9
      [] r = "10" -> 10

\* the for loop of Hand.calculate: <<total, aces>> after the first n cards
RECURSIVE CountCards(_, _)
CountCards(cards, n) ==
    IF n = 0 THEN <<0, 0>>
    ELSE LET prev == CountCards(cards, n - 1)
             number == cards[n].rank
         IN  IF IsDigit(number) THEN <<prev[1] + IntOf(number), prev[2]>>
             ELSE IF number \in {"K", "Q", "J"}
                  THEN <<prev[1] + FaceValue, prev[2]>>
                  ELSE <<prev[1] + AceHigh, prev[2] + 1>>

\* the while loop of Hand.calculate
RECURSIVE ReduceAces(_, _)
ReduceAces(total, aces) ==
    IF total > BustLimit /\ aces > 0
    THEN ReduceAces(total - AceReduction, aces - 1)
    ELSE total

\* a plausible slip: the reduction applied once, by an if instead of a while
calculate_once(cards) ==
    LET c == CountCards(cards, Len(cards))
    IN  IF c[1] > BustLimit /\ c[2] > 0 THEN c[1] - AceReduction ELSE c[1]

\* Hand.calculate: the value stored in self.total
calculate(cards) ==
    LET c == CountCards(cards, Len(cards))
    IN  ReduceAces(c[1], c[2])

\* a plausible slip: bust at 21 already
add_card_ge(hand, card) ==
    LET cs == Append(hand.cards, card)
        t  == calculate(cs)
    IN  [cards |-> cs, total |-> t,
         trigger |-> IF t >= BustLimit THEN FALSE ELSE hand.trigger]

\* a plausible slip: the bust noticed but the flag never cleared
add_card_noflag(hand, card) ==
    LET cs == Append(hand.cards, card)
    IN  [cards |-> cs, total |-> calculate(cs), trigger |-> hand.trigger]

\* Hand.add_card: append, calculate, and bust() when the total exceeds 21
add_card(hand, card) ==
    LET cs == Append(hand.cards, card)
        t  == calculate(cs)
    IN  [cards |-> cs, total |-> t,
         trigger |-> IF t > BustLimit THEN FALSE ELSE hand.trigger]

---------------------------------------------------------------------------
(* dealer_turn and determine_winner *)

\* a plausible slip: the dealer also hits on 17
dealer_hits_le(h) == h.total <= DealerStandsAt /\ h.trigger

\* the loop condition of dealer_turn
dealer_hits(h) == h.total < DealerStandsAt /\ h.trigger

\* a plausible slip: any 21 counts as blackjack
hand_blackjack_any(h) == h.total = BustLimit

\* player_blackjack / dealer_blackjack in determine_winner
hand_blackjack(h) == Len(h.cards) = BlackjackCards /\ h.total = BustLimit

\* int(x) truncates towards zero; bet_amount * 1.5 is the float 15*bet/10,
\* exact for the amounts of the model
int_one_and_half(b) ==
    LET n == 15 * b
    IN  IF n >= 0 THEN n \div 10 ELSE -((-n) \div 10)

Result(w, o) == [winnings |-> w, outcome |-> o]

\* a plausible slip: the two bust checks in the other order
settle_plain_dealer_first(p, d, b) ==
    IF ~d.trigger THEN Result(b, "DEALER_BUST")
    ELSE IF ~p.trigger THEN Result(-b, "PLAYER_BUST")
    ELSE IF p.total > d.total THEN Result(b, "PLAYER_WIN")
    ELSE IF d.total > p.total THEN Result(-b, "DEALER_WIN")
    ELSE Result(0, "PUSH_TIE")

\* determine_winner after the blackjack checks: busts, then totals
settle_plain(p, d, b) ==
    IF ~p.trigger THEN Result(-b, "PLAYER_BUST")
    ELSE IF ~d.trigger THEN Result(b, "DEALER_BUST")
    ELSE IF p.total > d.total THEN Result(b, "PLAYER_WIN")
    ELSE IF d.total > p.total THEN Result(-b, "DEALER_WIN")
    ELSE Result(0, "PUSH_TIE")

\* a plausible slip: the blackjack pays 2:1
determine_winner_double(p, d, b) ==
    IF hand_blackjack(p) /\ hand_blackjack(d) THEN Result(0, "PUSH_BLACKJACK")
    ELSE IF hand_blackjack(p) THEN Result(2 * b, "PLAYER_BLACKJACK")
    ELSE IF hand_blackjack(d) THEN Result(-b, "DEALER_BLACKJACK")
    ELSE settle_plain(p, d, b)

\* determine_winner: the value returned and the verdict printed
determine_winner(p, d, b) ==
    IF hand_blackjack(p) /\ hand_blackjack(d) THEN Result(0, "PUSH_BLACKJACK")
    ELSE IF hand_blackjack(p)
         THEN Result(int_one_and_half(b), "PLAYER_BLACKJACK")
    ELSE IF hand_blackjack(d) THEN Result(-b, "DEALER_BLACKJACK")
    ELSE settle_plain(p, d, b)

---------------------------------------------------------------------------
(* game() *)

\* the bets entered: the small ones, the whole bankroll, and on either
\* side of the accepted range a zero bet and a bet one above the bankroll
BetInputs == (0..MaxSmallBet) \cup {player_money, player_money + 1}

\* a plausible slip: the upper limit of the bet not checked
bet_accepted_no_limit(b, money) == 1 <= b

\* "if 1 <= bet <= player_money: break"; any other entry is asked again
bet_accepted(b, money) == 1 <= b /\ b <= money

\* a plausible slip: the check for a blackjack after the deal left out
player_has_21_never(h) == FALSE

\* "if player.total == 21" after the initial deal
player_has_21(h) == h.total = BustLimit

\* a plausible slip: the hit loop not leaving on a bust
player_loop_always(h) == TRUE

\* "while player.trigger"
player_loop(h) == h.trigger

Init ==
    /\ deck = <<>>
    /\ dealt = <<>>
    /\ err = "none"
    /\ dealer = NewHand
    /\ player = NewHand
    /\ pc = "bet"
    /\ last = "start"
    /\ bet = 0
    /\ player_money = StartMoney
    /\ winnings = 0
    /\ outcome = "none"
    /\ dealer_ret = 0
    /\ rounds = 0

\* a plausible slip: the hands constructed once, before the session loop
PlaceBet_old_hands ==
    /\ pc = "bet"
    /\ player_money > 0
    /\ rounds < MaxRounds
    /\ \E b \in BetInputs :
          /\ bet_accepted(b, player_money)
          /\ bet' = b
    /\ deck' \in Shuffles
    /\ dealt' = <<>>
    /\ rounds' = rounds + 1
    /\ pc' = "dealing"
    /\ last' = "bet"
    /\ UNCHANGED <<dealer, player, err, player_money, winnings, outcome,
                   dealer_ret>>

\* the bet prompt accepts b, then Deck(), Hand(), Hand()
PlaceBet ==
    /\ pc = "bet"
    /\ player_money > 0
    /\ rounds < MaxRounds
    /\ \E b \in BetInputs :
          /\ bet_accepted(b, player_money)
          /\ bet' = b
    /\ deck' \in Shuffles
    /\ dealt' = <<>>
    /\ dealer' = NewHand
    /\ player' = NewHand
    /\ rounds' = rounds + 1
    /\ pc' = "dealing"
    /\ last' = "bet"
    /\ UNCHANGED <<err, player_money, winnings, outcome, dealer_ret>>

\* the initial deal: dealer, player, dealer, player; then the check for 21
InitialDeal ==
    /\ pc = "dealing"
    /\ LET c1 == DealCard(deck)
           k1 == DealRest(deck)
           c2 == DealCard(k1)
           k2 == DealRest(k1)
           c3 == DealCard(k2)
           k3 == DealRest(k2)
           c4 == DealCard(k3)
           k4 == DealRest(k3)
           d2 == add_card(add_card(dealer, c1), c3)
           p2 == add_card(add_card(player, c2), c4)
       IN  /\ deck' = k4
           /\ dealt' = dealt \o <<c1, c2, c3, c4>>
           /\ dealer' = d2
           /\ player' = p2
           /\ pc' = IF player_has_21(p2) THEN "dealer"
                    ELSE IF player_loop(p2) THEN "player" ELSE "dealer"
    /\ last' = "deal"
    /\ UNCHANGED <<err, bet, player_money, winnings, outcome, dealer_ret,
                   rounds>>

\* "hit": one card to the player, then the loop condition again
Hit ==
    /\ pc = "player"
    /\ last' = "hit"
    /\ IF DeckEmpty(deck)
       THEN /\ err' = "IndexError"
            /\ pc' = "crashed"
            /\ UNCHANGED <<deck, dealt, player>>
       ELSE LET p2 == add_card(player, DealCard(deck))
            IN  /\ player' = p2
                /\ deck' = DealRest(deck)
                /\ dealt' = Append(dealt, DealCard(deck))
                /\ pc' = IF player_loop(p2) THEN "player" ELSE "dealer"
                /\ err' = err
    /\ UNCHANGED <<dealer, bet, player_money, winnings, outcome, dealer_ret,
                   rounds>>

\* "stand": break
Stand ==
    /\ pc = "player"
    /\ last' = "stand"
    /\ pc' = "dealer"
    /\ UNCHANGED <<deck, dealt, err, dealer, player, bet, player_money,
                   winnings, outcome, dealer_ret, rounds>>

\* a plausible slip: the card dealt in the loop never reaches the hand
DealerHit_dropped ==
    /\ pc = "dealer"
    /\ dealer_hits(dealer)
    /\ last' = "dealer_hit"
    /\ IF DeckEmpty(deck)
       THEN /\ err' = "IndexError"
            /\ pc' = "crashed"
            /\ UNCHANGED <<deck, dealt>>
       ELSE /\ deck' = DealRest(deck)
            /\ dealt' = Append(dealt, DealCard(deck))
            /\ pc' = "dealer"
            /\ err' = err
    /\ UNCHANGED <<dealer, dealer_ret, player, bet, player_money, winnings,
                   outcome, rounds>>

\* one pass of the loop of dealer_turn; a bust returns from inside the loop
DealerHit ==
    /\ pc = "dealer"
    /\ dealer_hits(dealer)
    /\ last' = "dealer_hit"
    /\ IF DeckEmpty(deck)
       THEN /\ err' = "IndexError"
            /\ pc' = "crashed"
            /\ UNCHANGED <<deck, dealt, dealer, dealer_ret>>
       ELSE LET d2 == add_card(dealer, DealCard(deck))
            IN  /\ dealer' = d2
                /\ deck' = DealRest(deck)
                /\ dealt' = Append(dealt, DealCard(deck))
                /\ pc' = IF ~d2.trigger THEN "settle" ELSE "dealer"
                /\ dealer_ret' = IF ~d2.trigger THEN d2.total ELSE dealer_ret
                /\ err' = err
    /\ UNCHANGED <<player, bet, player_money, winnings, outcome, rounds>>

\* the loop of dealer_turn ends and dealer_turn returns the total
DealerStand ==
    /\ pc = "dealer"
    /\ ~dealer_hits(dealer)
    /\ last' = "dealer_stand"
    /\ dealer_ret' = dealer.total
    /\ pc' = "settle"
    /\ UNCHANGED <<deck, dealt, err, dealer, player, bet, player_money,
                   winnings, outcome, rounds>>

\* determine_winner, the bankroll update and the out-of-money check
Settle ==
    /\ pc = "settle"
    /\ LET r == determine_winner(player, dealer, bet)
       IN  /\ winnings' = r.winnings
           /\ outcome' = r.outcome
           /\ player_money' = player_money + r.winnings
           /\ pc' = IF player_money + r.winnings <= 0 THEN "done"
                    ELSE "continue"
    /\ last' = "settle"
    /\ UNCHANGED <<deck, dealt, err, dealer, player, bet, dealer_ret, rounds>>

\* "Continue playing?" and the condition of the session loop
Continue ==
    /\ pc = "continue"
    /\ \E answer \in {"yes", "no"} :
          /\ last' = answer
          /\ pc' = IF answer = "yes" /\ player_money > 0 THEN "bet"
                   ELSE "done"
    /\ UNCHANGED <<deck, dealt, err, dealer, player, bet, player_money,
                   winnings, outcome, dealer_ret, rounds>>

Next ==
    \/ PlaceBet
    \/ InitialDeal
    \/ Hit
    \/ Stand
    \/ DealerHit
    \/ DealerStand
    \/ Settle
    \/ Continue

Spec == Init /\ [][Next]_vars

---------------------------------------------------------------------------
(* SpecDeck: a Deck is constructed and dealt from until it is empty, and    *)
(* then once more.                                                         *)

DeckInit ==
    /\ deck \in Shuffles
    /\ dealt = <<>>
    /\ err = "none"
    /\ dealer = NewHand
    /\ player = NewHand
    /\ pc = "deck"
    /\ last = "start"
    /\ bet = 0
    /\ player_money = StartMoney
    /\ winnings = 0
    /\ outcome = "none"
    /\ dealer_ret = 0
    /\ rounds = 0

\* Deck.deal(): the pop, or the exception of a pop from an empty list
DeckDeal ==
    /\ pc = "deck"
    /\ last' = "deal"
    /\ IF DeckEmpty(deck)
       THEN /\ err' = "IndexError"
            /\ UNCHANGED <<deck, dealt>>
       ELSE /\ deck' = DealRest(deck)
            /\ dealt' = Append(dealt, DealCard(deck))
            /\ err' = "none"
    /\ UNCHANGED <<dealer, player, pc, bet, player_money, winnings, outcome,
                   dealer_ret, rounds>>

DeckNext == DeckDeal

SpecDeck == DeckInit /\ [][DeckNext]_vars

---------------------------------------------------------------------------
(* SpecHand: a Hand receives any sequence of cards, also after a bust, and  *)
(* calculate() may be called on its own.                                   *)

HandInputs == {Card(suits[1], ranks[j]) : j \in 1..Len(ranks)}

HandInit ==
    /\ deck = <<>>
    /\ dealt = <<>>
    /\ err = "none"
    /\ dealer = NewHand
    /\ player = NewHand
    /\ pc = "hand"
    /\ last = "start"
    /\ bet = 0
    /\ player_money = StartMoney
    /\ winnings = 0
    /\ outcome = "none"
    /\ dealer_ret = 0
    /\ rounds = 0

\* hand.add_card(c)
HandAddCard ==
    /\ pc = "hand"
    /\ Len(player.cards) < MaxHandLen
    /\ \E c \in HandInputs : player' = add_card(player, c)
    /\ last' = "add_card"
    /\ UNCHANGED <<deck, dealt, err, dealer, pc, bet, player_money, winnings,
                   outcome, dealer_ret, rounds>>

\* hand.calculate()
HandCalculate ==
    /\ pc = "hand"
    /\ player' = [player EXCEPT !.total = calculate(player.cards)]
    /\ last' = "calculate"
    /\ UNCHANGED <<deck, dealt, err, dealer, pc, bet, player_money, winnings,
                   outcome, dealer_ret, rounds>>

HandNext ==
    \/ HandAddCard
    \/ HandCalculate

SpecHand == HandInit /\ [][HandNext]_vars

---------------------------------------------------------------------------
(* SpecSettle: two hands are built card by card, then determine_winner is   *)
(* called on them with a bet.                                              *)

SettleInputs == {Card(suits[1], r) : r \in {"A", "K", "10", "5"}}

SettleInit ==
    /\ deck = <<>>
    /\ dealt = <<>>
    /\ err = "none"
    /\ dealer = NewHand
    /\ player = NewHand
    /\ pc = "hands"
    /\ last = "start"
    /\ bet = 0
    /\ player_money = StartMoney
    /\ winnings = 0
    /\ outcome = "none"
    /\ dealer_ret = 0
    /\ rounds = 0

SettleAddPlayer ==
    /\ pc = "hands"
    /\ Len(player.cards) < MaxSettleLen
    /\ \E c \in SettleInputs : player' = add_card(player, c)
    /\ last' = "add_card"
    /\ UNCHANGED <<deck, dealt, err, dealer, pc, bet, player_money, winnings,
                   outcome, dealer_ret, rounds>>

SettleAddDealer ==
    /\ pc = "hands"
    /\ Len(dealer.cards) < MaxSettleLen
    /\ \E c \in SettleInputs : dealer' = add_card(dealer, c)
    /\ last' = "add_card"
    /\ UNCHANGED <<deck, dealt, err, player, pc, bet, player_money, winnings,
                   outcome, dealer_ret, rounds>>

\* determine_winner(player, dealer, b) on final hands of two cards or more
SettleResolve ==
    /\ pc = "hands"
    /\ Len(player.cards) >= 2
    /\ Len(dealer.cards) >= 2
    /\ \E b \in 1..MaxBet :
          LET r == determine_winner(player, dealer, b)
          IN  /\ bet' = b
              /\ winnings' = r.winnings
              /\ outcome' = r.outcome
    /\ pc' = "settled"
    /\ last' = "determine_winner"
    /\ UNCHANGED <<deck, dealt, err, dealer, player, player_money, dealer_ret,
                   rounds>>

SettleNext ==
    \/ SettleAddPlayer
    \/ SettleAddDealer
    \/ SettleResolve

SpecSettle == SettleInit /\ [][SettleNext]_vars

---------------------------------------------------------------------------
(* SpecRound: one round of game() from a freshly constructed Deck and two   *)
(* new Hands, up to the return of dealer_turn.  Besides the shuffles of the *)
(* session, the deck may come out of the shuffle stacked: the low cards on  *)
(* top, which gives the longest rounds.                                    *)

\* the ranks dealt first by the stacked decks, in the order they are dealt
StackedTops ==
    << <<"2", "A", "2", "A", "A", "A", "2", "2", "3", "3", "3", "3", "4",
         "4", "4", "4", "5">>,
       <<"A", "A", "A", "A", "2", "2", "2", "2", "3", "3", "3", "3", "4",
         "6", "4", "4">>,
       <<"A", "10", "5", "6", "K", "2", "3">>,
       <<"A", "9", "5", "7", "9", "2", "K">> >>

\* the k-th card dealt takes the next suit not yet used for its rank
TopCards(t) ==
    [k \in 1..Len(t) |->
        Card(suits[Cardinality({i \in 1..k : t[i] = t[k]})], t[k])]

\* the permutation of the built deck that deals the ranks of t first:
\* the other cards in built order, then the top cards, the first one last
StackDeck(t) ==
    LET top  == TopCards(t)
        rest == SelectSeq(OrderedDeck,
                          LAMBDA c : \A k \in 1..Len(top) : top[k] # c)
    IN  rest \o [k \in 1..Len(top) |-> top[Len(top) + 1 - k]]

StackedDecks == {StackDeck(StackedTops[n]) : n \in 1..Len(StackedTops)}

RoundDecks == Shuffles \cup StackedDecks

\* the state of game() after "deck = Deck(); dealer = Hand(); player = Hand()"
\* of the first round
RoundInit ==
    /\ deck \in RoundDecks
    /\ dealt = <<>>
    /\ err = "none"
    /\ dealer = NewHand
    /\ player = NewHand
    /\ pc = "dealing"
    /\ last = "bet"
    /\ bet = 1
    /\ player_money = StartMoney
    /\ winnings = 0
    /\ outcome = "none"
    /\ dealer_ret = 0
    /\ rounds = 1

RoundNext ==
    \/ InitialDeal
    \/ Hit
    \/ Stand
    \/ DealerHit
    \/ DealerStand

SpecRound == RoundInit /\ [][RoundNext]_vars

\* The deal and dealer_turn run without waiting for anything, so they keep
\* stepping; the player's turn waits for input(), which may never come.
SpecRoundFair ==
    /\ RoundInit
    /\ [][RoundNext]_vars
    /\ WF_vars(InitialDeal)
    /\ WF_vars(DealerHit)
    /\ WF_vars(DealerStand)

---------------------------------------------------------------------------
(* Properties.  The scoring used to state them is written independently of *)
(* Hand.calculate: every way of counting the aces is enumerated.           *)

CardValueAceLow(c) ==
    IF c.rank = "A" THEN 1
    ELSE IF c.rank \in {"J", "Q", "K"} THEN 10
    ELSE IntOf(c.rank)

RECURSIVE SumAceLow(_)
SumAceLow(cards) ==
    IF cards = <<>> THEN 0
    ELSE CardValueAceLow(Head(cards)) + SumAceLow(Tail(cards))

AceCount(cards) == Cardinality({i \in 1..Len(cards) : cards[i].rank = "A"})

\* the totals obtainable by counting k of the aces as 11 and the others as 1
PossibleTotals(cards) ==
    {SumAceLow(cards) + 10 * k : k \in 0..AceCount(cards)}

BestTotal(cards) ==
    LET ok == {t \in PossibleTotals(cards) : t <= 21}
    IN  IF ok # {} THEN CHOOSE t \in ok : \A u \in ok : u <= t
        ELSE SumAceLow(cards)

TwoCard21(h) == Len(h.cards) = 2 /\ BestTotal(h.cards) = 21

Over21(h) == BestTotal(h.cards) > 21

\* the ordered rule table of the payout, on a bet b
RuleTable(p, d, b) ==
    IF TwoCard21(p) /\ TwoCard21(d) THEN 0
    ELSE IF TwoCard21(p) THEN (3 * b) \div 2
    ELSE IF TwoCard21(d) THEN -b
    ELSE IF Over21(p) THEN -b
    ELSE IF Over21(d) THEN b
    ELSE IF BestTotal(p.cards) > BestTotal(d.cards) THEN b
    ELSE IF BestTotal(p.cards) < BestTotal(d.cards) THEN -b
    ELSE 0

\* C1: for every pair of final hands and every positive bet, the value
\* determine_winner returns is the payout of the ordered rule table: push on
\* two blackjacks, floor(1.5*B) on a player blackjack, -B on a dealer
\* blackjack, -B on a player bust, +B on a dealer bust, else by the totals.
C1_PayoutFollowsRuleTable ==
    pc = "settled" => winnings = RuleTable(player, dealer, bet)

\* a player blackjack on an odd bet: 3 pays floor(4.5) = 4
C1_Witness ==
    /\ pc = "settled"
    /\ outcome = "PLAYER_BLACKJACK"
    /\ bet = 3
    /\ winnings = 4

\* C2: after any sequence of add_card calls the total of a hand is the
\* largest total not above 21 obtainable by counting each ace as 1 or 11,
\* or the all-aces-low total when there is none; calling calculate() again
\* without adding a card leaves the total as it is.
C2_TotalIsBestAndStable ==
    /\ [](player.total = BestTotal(player.cards))
    /\ [][last' = "calculate" => player'.total = player.total]_vars

\* four cards, two aces, both reduced: 41 -> 31 -> 21, then recomputed
C2_Witness ==
    /\ last = "calculate"
    /\ Len(player.cards) = 4
    /\ AceCount(player.cards) = 2
    /\ SumAceLow(player.cards) = 21
    /\ player.total = 21

\* C3: a hand is marked busted (trigger = FALSE) exactly when its total is
\* above 21, also after cards appended to a busted hand, and a busted hand
\* stays busted.
C3_BustedIffOver21 ==
    /\ [](player.trigger <=> player.total <= 21)
    /\ [][~player.trigger => ~player'.trigger]_vars

\* a card appended to a hand that was busted by its third card
C3_Witness ==
    /\ Len(player.cards) = 4
    /\ BestTotal(SubSeq(player.cards, 1, 3)) > 21
    /\ ~player.trigger
    /\ player.cards[4].rank = "A"

CardsOf(seq) == {seq[i] : i \in 1..Len(seq)}

NoDuplicates(seq) == \A i, j \in 1..Len(seq) : seq[i] = seq[j] => i = j

\* C4: a Deck holds the 52 suit/rank combinations once each; every deal()
\* removes exactly one card, the last one, and returns it, so that no
\* suit/rank pair is returned twice.
C4_DeckIs52DistinctAndDealsOnce ==
    /\ [](/\ Cardinality(Cards) = 52
          /\ Len(deck) + Len(dealt) = 52
          /\ CardsOf(deck) \cup CardsOf(dealt) = Cards
          /\ NoDuplicates(dealt)
          /\ NoDuplicates(deck))
    /\ [][(last' = "deal" /\ err' = "none") =>
              /\ Len(deck') = Len(deck) - 1
              /\ dealt' = Append(dealt, deck[Len(deck)])]_vars

\* the whole deck has been dealt
C4_Witness ==
    /\ pc = "deck"
    /\ deck = <<>>
    /\ Len(dealt) = 52
    /\ err = "none"

Settled == pc \in {"continue", "done"} /\ last \in {"settle", "no"}

\* C6: the blackjack branch is taken only for a player hand of exactly two
\* cards and total 21; more than the bet is paid only on such a hand; a
\* player 21 of three cards or more is settled by the plain comparison, at
\* most +B, and loses -B to a dealer two-card 21.
C6_BlackjackOnlyOnTwoCards ==
    Settled =>
        /\ outcome = "PLAYER_BLACKJACK" =>
              /\ Len(player.cards) = 2
              /\ player.total = 21
              /\ winnings = (3 * bet) \div 2
        /\ (Len(player.cards) = 2 /\ player.total = 21) =>
              outcome \in {"PLAYER_BLACKJACK", "PUSH_BLACKJACK"}
        /\ winnings > bet => Len(player.cards) = 2
        /\ (Len(player.cards) >= 3 /\ player.total = 21) =>
              /\ winnings \in {-bet, 0, bet}
              /\ outcome \in {"DEALER_BLACKJACK", "DEALER_BUST", "PLAYER_WIN",
                              "PUSH_TIE"}
              /\ (Len(dealer.cards) = 2 /\ dealer.total = 21) =>
                    winnings = -bet

\* a player 21 of three cards or more lost to a dealer blackjack
C6_Witness ==
    /\ Settled
    /\ Len(player.cards) >= 3
    /\ player.total = 21
    /\ Len(dealer.cards) = 2
    /\ dealer.total = 21
    /\ winnings = -bet

\* C7: in dealer_turn the dealer draws only from a state with a total below
\* 17 and not busted; when dealer_turn returns, the dealer's total is 17 or
\* more and is the value returned.
C7_DealerDrawsBelow17 ==
    /\ [][(pc = "dealer" /\ dealer'.cards # dealer.cards) =>
              (dealer.total < 17 /\ dealer.trigger /\ dealer.total <= 21)]_vars
    /\ [](pc = "settle" => (dealer.total >= 17 /\ dealer_ret = dealer.total))

\* the dealer drew twice and stands
C7_Witness ==
    /\ pc = "settle"
    /\ last = "dealer_stand"
    /\ Len(dealer.cards) >= 4
    /\ dealer.trigger
    /\ dealer_ret = dealer.total

PhaseRank(p) ==
    CASE p = "bet" -> 0
      [] p = "dealing" -> 1
      [] p = "player" -> 2
      [] p = "dealer" -> 3
      [] p \in {"settle", "continue", "done"} -> 4
      [] OTHER -> 5

\* C8: a round goes through DEALING, PLAYER_TURN, DEALER_TURN, SETTLED in
\* that order, never backwards, and is settled only out of the dealer's
\* turn; a player blackjack after the initial deal skips PLAYER_TURN: the
\* round goes to DEALER_TURN and the player's hand keeps its two cards.
C8_PhaseOrder ==
    [][/\ (PhaseRank(pc') >= PhaseRank(pc) \/ (pc = "continue" /\ pc' = "bet"))
       /\ PhaseRank(pc') <= 4
       /\ (pc' = "dealing" => pc = "bet")
       /\ (pc' = "player" => pc \in {"dealing", "player"})
       /\ (pc' = "dealer" => pc \in {"dealing", "player", "dealer"})
       /\ (pc' = "settle" => pc = "dealer")
       /\ (pc' = "player" => ~(Len(player'.cards) = 2 /\ player'.total = 21))
       /\ (pc = "dealing" /\ Len(player'.cards) = 2 /\ player'.total = 21)
             => pc' = "dealer"
       /\ (Len(player.cards) = 2 /\ player.total = 21 /\ pc' # "dealing")
             => player' = player]_vars

\* the player was dealt a blackjack and the dealer's turn has begun
C8_Witness ==
    /\ pc = "dealer"
    /\ last = "deal"
    /\ Len(player.cards) = 2
    /\ player.total = 21

\* C9: a hit that busts the player ends the player's turn; no card is added
\* to a busted player's hand in that round, and the cards drawn after the
\* bust go to the dealer; a stand moves to the dealer's turn and leaves the
\* player's hand and the deck as they are.
C9_NoPlayAfterBust ==
    [][/\ (pc = "player" /\ ~player'.trigger) => pc' = "dealer"
       /\ (~player.trigger /\ pc' # "dealing") => player' = player
       /\ (~player.trigger /\ pc' # "dealing" /\ deck' # deck) =>
             dealer'.cards = Append(dealer.cards, deck[Len(deck)])
       /\ last' = "stand" =>
             (pc' = "dealer" /\ player' = player /\ deck' = deck)]_vars

\* the player busted on a hit and the dealer drew after it
C9_Witness ==
    /\ ~player.trigger
    /\ Len(player.cards) >= 3
    /\ last = "dealer_hit"
    /\ Len(dealer.cards) >= 3

\* C10, as stated: no round is settled with both hands busted.
C10_NeverBothBusted ==
    pc = "settle" => ~(~player.trigger /\ ~dealer.trigger)

\* C10, amended: a round can be settled with both hands busted, the dealer
\* playing after the player's bust; it is then settled as the player's
\* bust, with payout -B.
C10_BothBustedPlayerLoses ==
    (Settled /\ ~player.trigger /\ ~dealer.trigger) =>
        (outcome = "PLAYER_BUST" /\ winnings = -bet)

\* a round settled with both hands above 21
C10_Witness ==
    /\ Settled
    /\ player.total > 21
    /\ dealer.total > 21
    /\ ~player.trigger
    /\ ~dealer.trigger
    /\ winnings = -bet

\* C11: in a round played from a fresh deck of 52, whatever the shuffle and
\* the player's choices, at most 21 cards are drawn over both hands, so
\* that deal() is never called on an empty deck: no draw fails and the
\* cards drawn are the cards of the two hands.
C11_RoundDrawsAtMost21 ==
    /\ Len(dealt) <= 21
    /\ Len(dealt) = Len(player.cards) + Len(dealer.cards)
    /\ Len(deck) = 52 - Len(dealt)
    /\ err = "none"
    /\ pc # "crashed"

\* the longest round there is: 17 cards, the player busting on the 11th
\* card of the hand and the dealer standing on six cards
C11_Witness ==
    /\ pc = "settle"
    /\ Len(dealt) = 17
    /\ Len(player.cards) = 11
    /\ Len(dealer.cards) = 6
    /\ Len(deck) = 35

\* C12: dealer_turn terminates: once the dealer's turn has begun, the loop
\* reaches a total of 17 or more, or a bust, and dealer_turn returns; this
\* also when a draw on a soft hand leaves the total as it was or lower.  So
\* a round whose player stands or busts is settled.
C12_DealerTurnTerminates ==
    (pc = "dealer") ~> (pc = "settle" /\ dealer.total >= 17)

\* the dealer drew on a soft hand and the total did not grow
C12_Witness ==
    /\ pc = "dealer"
    /\ last = "dealer_hit"
    /\ Len(dealer.cards) >= 3
    /\ dealer.total <= calculate(SubSeq(dealer.cards, 1, Len(dealer.cards) - 1))

\* the round's hands and deck are left as they are by the step
HandsAndDeckKept == player' = player /\ dealer' = dealer /\ deck' = deck

\* C13: settlement is read-only: determine_winner leaves the cards, total
\* and busted flag of both hands and the deck unchanged; after it the hands
\* of the round are not changed again; the next round begins with a newly
\* constructed deck of the 52 cards and two empty hands, and of the round
\* before only the bankroll is used.
C13_SettlementReadOnly ==
    [][/\ last' = "settle" => HandsAndDeckKept
       /\ pc \in {"settle", "continue", "done"} => HandsAndDeckKept
       /\ pc = "bet" =>
             /\ player' = NewHand
             /\ dealer' = NewHand
             /\ Len(deck') = 52
             /\ CardsOf(deck') = Cards
             /\ dealt' = <<>>
             /\ player_money' = player_money]_vars

\* the second round begins, after a first round that was settled and has
\* changed the bankroll
C13_Witness ==
    /\ rounds = 2
    /\ pc = "dealing"
    /\ outcome # "none"
    /\ player = NewHand
    /\ dealer = NewHand
    /\ Len(deck) = 52
    /\ player_money # StartMoney

\* C14: the bankroll never becomes negative: a round is begun only on a
\* positive bankroll, with a bet from 1 to the bankroll; the settlement
\* changes the bankroll by -bet, 0, +bet or floor(1.5*bet); the session
\* stops as soon as the bankroll is 0.
C14_BankrollNeverNegative ==
    /\ [](/\ player_money >= 0
          /\ player_money = 0 => pc = "done"
          /\ pc \in {"dealing", "player", "dealer", "settle"} =>
                (1 <= bet /\ bet <= player_money))
    /\ [][/\ pc' = "dealing" => player_money > 0
          /\ last' = "settle" =>
                /\ player_money' - player_money
                      \in {-bet, 0, bet, (3 * bet) \div 2}
                /\ player_money' = player_money + winnings'
          /\ last' # "settle" => player_money' = player_money]_vars

\* the whole bankroll was bet and lost, and the session is over
C14_Witness ==
    /\ pc = "done"
    /\ last = "settle"
    /\ player_money = 0
    /\ bet = StartMoney
    /\ winnings = -StartMoney

===========================================================================
